---- MODULE Spec2Model ----
(***************************************************************************)
(* Model of sqlite_performance_demo/main.c: a benchmark driver that opens  *)
(* a fresh SQLite database per scenario, optionally populates a fixture,   *)
(* times one INSERT or UPDATE strategy and closes the database.            *)
(*                                                                         *)
(* The SQLite library is the environment.  Its state is modelled by what   *)
(* the calls of main.c do to it: the database file (committed contents),   *)
(* the connection's view (committed contents plus the open transaction),   *)
(* the open statement handles and the position of the SELECT cursor.       *)
(* Every call whose status main.c reads may report a failure; main.c's     *)
(* reaction to the status is translated from the source.  So may          *)
(* sqlite3_step on the SELECT cursor, whose status decides the while       *)
(* loops.  remove(), the sqlite3_bind_* calls, sqlite3_reset,              *)
(* sqlite3_clear_bindings and sqlite3_finalize, whose results main.c       *)
(* drops, are taken to succeed: the indexes bound are in range and the     *)
(* statements are reset before they are bound.                             *)
(*                                                                         *)
(* Doubles are fixed-point integers, Unit units to 1.0, fine enough for    *)
(* the "%f" conversion (six decimals) to round.                            *)
(***************************************************************************)
EXTENDS Integers, Sequences, FiniteSets, TLC

\* NUM_EXECUTIONS ranges over 0..MaxRows (main.c:19 sets 10000000).
MaxRows == 12

\* Largest value of rand(); the generator's state ranges over 0..RandMax.
RandMax == 7

VARIABLES
    pc,       \* position of the single thread of control
    tests,    \* the calls of time_test_execution main makes, in order
    si,       \* index in tests of the scenario main is at
    numExec,  \* NUM_EXECUTIONS
    file,     \* contents of test.db: what is committed
    conn,     \* _db: "none", "open" or "failed"
    nconn,    \* number of connections opened and not closed
    db,       \* the connection's view of the database
    inTxn,    \* a transaction is open on the connection
    stmts,    \* statement handles prepared and not finalized
    cur,      \* rowid of the row sel_stmt is on, 0 before the first
    rnd,      \* state of rand()
    i,        \* loop counter of the insert strategies
    fn,       \* the strategy being executed
    caller,   \* who called the strategy: "setup" or "fun"
    timing,   \* start = clock() has run and end = clock() has not
    log,      \* the calls of the current scenario, in order
    pre,      \* rows of the table when the timer started
    history,  \* per completed update scenario: strategy, fixture, final rows
    dieAt     \* the call whose status led to die_db_error, "" if none

vars == <<pc, tests, si, numExec, file, conn, nconn, db, inTxn, stmts, cur,
          rnd, i, fn, caller, timing, log, pre, history, dieAt>>

----------------------------------------------------------------------------
(* Values *)

\* 1.0 in fixed-point units: 10^-7 resolution.
Unit == 10000000

InsertFns == {"insert_rows", "insert_rows_xact", "insert_rows_xact_prepared"}
UpdateFns == {"update_rows_pk", "update_rows_rowid"}
XactFns == (InsertFns \cup UpdateFns) \ {"insert_rows"}

\* An empty database: no file, or a file without the Test table.
EmptyDb == [hasTable |-> FALSE, rows |-> <<>>]

\* "%d" of a non-negative int, as ASCII codes.
RECURSIVE DecimalDigits(_)
DecimalDigits(n) ==
    IF n < 10 THEN <<48 + n>>
    ELSE DecimalDigits(n \div 10) \o <<48 + (n % 10)>>

\* A conversion that keeps the last digit only.
DecimalLastDigit(n) == <<48 + (n % 10)>>

Decimal(n) == DecimalDigits(n)

\* sprintf(key, "%d", i) in insert_rows, sprintf(key, "K-%d", i) elsewhere.
KeyPrefix(f) == IF f = "insert_rows" THEN <<>> ELSE <<75, 45>>

MakeKey(f, n) == KeyPrefix(f) \o Decimal(n)

\* memcmp order of two TEXT values (BINARY collation).
RECURSIVE TextLess(_, _)
TextLess(a, b) ==
    IF a = <<>> THEN b # <<>>
    ELSE IF b = <<>> THEN FALSE
    ELSE IF Head(a) # Head(b) THEN Head(a) < Head(b)
    ELSE TextLess(Tail(a), Tail(b))

\* rand(): a linear congruential generator on 0..RandMax.
RandNext(s) == (5 * s + 3) % (RandMax + 1)

RAND_DOUBLE_LIMIT == 100

\* (double)rand() / (RAND_MAX / RAND_DOUBLE_LIMIT), in units.
RandDouble(r) ==
    LET hundred == RAND_DOUBLE_LIMIT * (Unit \div 10)
        q == (r * hundred) \div RandMax
        m == (r * hundred) % RandMax
    IN  q * 10 + (m * 10) \div RandMax

\* "%f" and SQLite's reading of the literal: six decimals, rounded.
FormatF(x) == ((x + 5) \div 10) * 10

\* The k-th value rand() returns from state s, k >= 1.
RECURSIVE RandAt(_, _)
RandAt(s, k) == IF k = 1 THEN RandNext(s) ELSE RandAt(RandNext(s), k - 1)

\* The four rand_double() draws of one row, as the strategy stores them.
StoredNum(f, s, k) ==
    IF f = "insert_rows_xact_prepared"
    THEN RandDouble(RandAt(s, k))
    ELSE FormatF(RandDouble(RandAt(s, k)))

NewRow(f, n, s) ==
    [key |-> MakeKey(f, n),
     num1 |-> StoredNum(f, s, 1), num2 |-> StoredNum(f, s, 2),
     num3 |-> StoredNum(f, s, 3), num4 |-> StoredNum(f, s, 4)]

HasKey(rows, k) == \E j \in 1..Len(rows) : rows[j].key = k

----------------------------------------------------------------------------
(* The SQLite calls, by what they do to the database *)

\* remove(DB_FILE_PATH): the file is gone.
RemoveKeeps(f) == f

Remove(f) == EmptyDb

\* CREATE TABLE IF NOT EXISTS Test(...).
CreateTable(d) == [d EXCEPT !.hasTable = TRUE]

\* ORDER BY key (ties by rowid) for update_rows_pk, ORDER BY _rowid_ for
\* update_rows_rowid; a and b are rowids.
OrderLess(f, rows, a, b) ==
    IF f = "update_rows_pk"
    THEN \/ TextLess(rows[a].key, rows[b].key)
         \/ rows[a].key = rows[b].key /\ a < b
    ELSE a < b

\* The rowids sqlite3_step(sel_stmt) has not returned yet: those after the
\* cursor's row in the statement's order.
Ahead(f, rows, c) ==
    {r \in 1..Len(rows) : c = 0 \/ OrderLess(f, rows, c, r)}

\* The rowid the next sqlite3_step(sel_stmt) returns (Ahead is not empty).
NextRowid(f, rows, c) ==
    CHOOSE r \in Ahead(f, rows, c) :
        \A q \in Ahead(f, rows, c) \ {r} : OrderLess(f, rows, r, q)

\* ++row.num1 .. ++row.num4 on the row read from sel_stmt.
Incremented(row) ==
    [row EXCEPT !.num1 = @ + Unit, !.num2 = @ + Unit,
                !.num3 = @ + Unit, !.num4 = @ + Unit]

\* UPDATE Test SET num1..num4 = ? WHERE key = ? (update_rows_pk) or
\* WHERE _rowid_ = ? (update_rows_rowid); r is the rowid read, new the row bound.
UpdateRows(f, rows, r, new) ==
    [j \in 1..Len(rows) |->
        IF (f = "update_rows_pk" /\ rows[j].key = new.key)
           \/ (f = "update_rows_rowid" /\ j = r)
        THEN [rows[j] EXCEPT !.num1 = new.num1, !.num2 = new.num2,
                             !.num3 = new.num3, !.num4 = new.num4]
        ELSE rows[j]]

\* Statement handles a strategy prepares, in order.
Prepared(f) ==
    IF f \in UpdateFns THEN <<"sel_stmt", "up_stmt">>
    ELSE IF f = "insert_rows_xact_prepared" THEN <<"stmt">>
    ELSE <<>>

\* A strategy that finalizes sel_stmt and leaves up_stmt open.
FinalizedSelOnly(f) ==
    IF f \in UpdateFns THEN <<"sel_stmt">> ELSE Prepared(f)

\* Statement handles a strategy passes to sqlite3_finalize, in order.
Finalized(f) == Prepared(f)

Range(s) == {s[k] : k \in 1..Len(s)}

----------------------------------------------------------------------------
(* Control flow *)

\* The scenarios main runs, and those it runs with line 82 enabled.
DefaultTests ==
    << [fun |-> "insert_rows_xact", setup |-> "setup_test"],
       [fun |-> "insert_rows_xact_prepared", setup |-> "setup_test"],
       [fun |-> "update_rows_pk", setup |-> "setup_update_test"],
       [fun |-> "update_rows_rowid", setup |-> "setup_update_test"] >>

AllTests ==
    << [fun |-> "insert_rows", setup |-> "setup_test"] >> \o DefaultTests

\* The steps of time_test_execution with the timer started before the setup.
TteOrderTimerFirst ==
    <<"open", "start", "setup", "fun", "stop", "close", "report">>

\* The steps of time_test_execution, in order.
TteOrder == <<"open", "setup", "start", "fun", "stop", "close", "report">>

\* The step after step p of time_test_execution; after the last, back to main.
TteAfter(p) ==
    LET k == CHOOSE j \in 1..Len(TteOrder) : TteOrder[j] = p
    IN  IF k = Len(TteOrder) THEN "main" ELSE TteOrder[k + 1]

\* Where a strategy returns to.
Return == IF caller = "setup" THEN TteAfter("setup") ELSE TteAfter("fun")

\* for (int i = 0; i <= NUM_EXECUTIONS; ++i)
LoopCondInclusive(k) == k <= numExec

\* for (int i = 0; i < NUM_EXECUTIONS; ++i)
LoopCond(k) == k < numExec

\* A strategy that leaves its loop without COMMIT when it prepared an INSERT.
AfterLoopNoCommit(f) ==
    IF f = "insert_rows" THEN Return
    ELSE IF f = "insert_rows_xact_prepared" THEN "finalize"
    ELSE "commit"

\* Where a strategy goes when its loop ends.
AfterLoop(f) == IF f = "insert_rows" THEN Return ELSE "commit"

\* die_db_error(): print the message and exit(-1).  site is the failed call.
Die(site) ==
    /\ pc' = "dead"
    /\ dieAt' = site

Logged(e) == log' = Append(log, e)

----------------------------------------------------------------------------
(* Initial state: main is about to run its first scenario.  test.db is     *)
(* absent or left by an earlier run of the program.                        *)

LeftoverDb == [hasTable |-> TRUE, rows |-> <<NewRow("insert_rows_xact_prepared", 0, 0)>>]

Init ==
    /\ pc = "main"
    /\ tests \in {DefaultTests, AllTests}
    /\ si = 1
    /\ numExec \in 0..MaxRows
    /\ file \in {EmptyDb, LeftoverDb}
    /\ conn = "none"
    /\ nconn = 0
    /\ db = EmptyDb
    /\ inTxn = FALSE
    /\ stmts = {}
    /\ cur = 0
    /\ rnd \in 0..RandMax
    /\ i = 0
    /\ fn = ""
    /\ caller = ""
    /\ timing = FALSE
    /\ log = <<>>
    /\ pre = <<>>
    /\ history = <<>>
    /\ dieAt = ""

----------------------------------------------------------------------------
(* main and time_test_execution *)

\* main calls time_test_execution for the next scenario.
MainCall ==
    /\ pc = "main"
    /\ si <= Len(tests)
    /\ pc' = TteOrder[1]
    /\ log' = <<>>
    /\ UNCHANGED <<tests, si, numExec, file, conn, nconn, db, inTxn, stmts,
                   cur, rnd, i, fn, caller, timing, pre, history, dieAt>>

\* main returns after the last scenario.
MainExit ==
    /\ pc = "main"
    /\ si > Len(tests)
    /\ pc' = "done"
    /\ UNCHANGED <<tests, si, numExec, file, conn, nconn, db, inTxn, stmts,
                   cur, rnd, i, fn, caller, timing, log, pre, history, dieAt>>

\* open_database: remove the file, sqlite3_open returns SQLITE_OK.
OpenDatabase ==
    /\ pc = "open"
    /\ file' = Remove(file)
    /\ db' = file'
    /\ conn' = "open"
    /\ nconn' = nconn + 1
    /\ inTxn' = FALSE
    /\ Logged("open")
    /\ pc' = TteAfter("open")
    /\ UNCHANGED <<tests, si, numExec, stmts, cur, rnd, i, fn, caller,
                   timing, pre, history, dieAt>>

\* open_database where a failed sqlite3_open is not acted on.
OpenDatabaseFailIgnored ==
    /\ pc = "open"
    /\ file' = Remove(file)
    /\ conn' = "failed"
    /\ Logged("open")
    /\ pc' = TteAfter("open")
    /\ UNCHANGED <<tests, si, numExec, nconn, db, inTxn, stmts, cur, rnd, i,
                   fn, caller, timing, pre, history, dieAt>>

\* open_database: sqlite3_open returns an error, die_db_error.
OpenDatabaseFail ==
    /\ pc = "open"
    /\ file' = Remove(file)
    /\ conn' = "failed"
    /\ Logged("open")
    /\ Die("sqlite3_open")
    /\ UNCHANGED <<tests, si, numExec, nconn, db, inTxn, stmts, cur, rnd, i,
                   fn, caller, timing, pre, history>>

\* setup_fun(): setup_test's CREATE TABLE succeeds; setup_update_test goes
\* on to call insert_rows_xact_prepared.  sqlite3_exec on a connection that
\* failed to open returns an error.
SetupTest ==
    /\ pc = "setup"
    /\ Logged("setup")
    /\ IF conn = "open"
       THEN /\ db' = CreateTable(db)
            /\ file' = CreateTable(db)
            /\ IF tests[si].setup = "setup_update_test"
               THEN /\ pc' = "begin"
                    /\ fn' = "insert_rows_xact_prepared"
                    /\ caller' = "setup"
               ELSE /\ pc' = TteAfter("setup")
                    /\ UNCHANGED <<fn, caller>>
            /\ UNCHANGED dieAt
       ELSE /\ Die("sqlite3_exec CREATE")
            /\ UNCHANGED <<db, file, fn, caller>>
    /\ UNCHANGED <<tests, si, numExec, conn, nconn, inTxn, stmts, cur, rnd,
                   i, timing, pre, history>>

\* setup_test: sqlite3_exec returns an error, die_db_error.
SetupTestFail ==
    /\ pc = "setup"
    /\ conn = "open"
    /\ Logged("setup")
    /\ Die("sqlite3_exec CREATE")
    /\ UNCHANGED <<tests, si, numExec, file, conn, nconn, db, inTxn, stmts,
                   cur, rnd, i, fn, caller, timing, pre, history>>

\* start = clock()
StartTimer ==
    /\ pc = "start"
    /\ timing' = TRUE
    /\ pre' = db.rows
    /\ Logged("start")
    /\ pc' = TteAfter("start")
    /\ UNCHANGED <<tests, si, numExec, file, conn, nconn, db, inTxn, stmts,
                   cur, rnd, i, fn, caller, history, dieAt>>

\* fun(): enter the strategy under test.
CallFun ==
    /\ pc = "fun"
    /\ fn' = tests[si].fun
    /\ caller' = "fun"
    /\ i' = 0
    /\ Logged("fun")
    /\ pc' = IF tests[si].fun = "insert_rows" THEN "loop" ELSE "begin"
    /\ UNCHANGED <<tests, si, numExec, file, conn, nconn, db, inTxn, stmts,
                   cur, rnd, timing, pre, history, dieAt>>

\* end = clock()
StopTimer ==
    /\ pc = "stop"
    /\ timing' = FALSE
    /\ Logged("stop")
    /\ pc' = TteAfter("stop")
    /\ UNCHANGED <<tests, si, numExec, file, conn, nconn, db, inTxn, stmts,
                   cur, rnd, i, fn, caller, pre, history, dieAt>>

\* close_database: sqlite3_close returns SQLITE_BUSY while statements are
\* open, and otherwise closes the connection, rolling back an open
\* transaction.
CloseDatabase ==
    /\ pc = "close"
    /\ Logged("close")
    /\ IF stmts = {}
       THEN /\ conn' = "none"
            /\ nconn' = nconn - 1
            /\ db' = EmptyDb
            /\ inTxn' = FALSE
            /\ history' =
                 IF tests[si].fun \in UpdateFns
                 THEN Append(history, [fun |-> tests[si].fun,
                                       fixture |-> pre,
                                       final |-> file.rows])
                 ELSE history
            /\ pc' = TteAfter("close")
            /\ UNCHANGED dieAt
       ELSE /\ Die("sqlite3_close")
            /\ UNCHANGED <<conn, nconn, db, inTxn, history>>
    /\ UNCHANGED <<tests, si, numExec, file, stmts, cur, rnd, i, fn, caller,
                   timing, pre>>

\* printf of the elapsed time and rows/sec; back to main.
Report ==
    /\ pc = "report"
    /\ Logged("report")
    /\ si' = si + 1
    /\ pc' = TteAfter("report")
    /\ UNCHANGED <<tests, numExec, file, conn, nconn, db, inTxn, stmts, cur,
                   rnd, i, fn, caller, timing, pre, history, dieAt>>

----------------------------------------------------------------------------
(* The strategies *)

\* sqlite3_exec "BEGIN TRANSACTION;" returns SQLITE_OK, or an error when a
\* transaction is already open on the connection.
Begin ==
    /\ pc = "begin"
    /\ Logged("begin")
    /\ IF inTxn
       THEN /\ Die("sqlite3_exec BEGIN in transaction")
            /\ UNCHANGED <<inTxn, i, cur>>
       ELSE /\ inTxn' = TRUE
            /\ i' = 0
            /\ cur' = 0
            /\ pc' = IF Prepared(fn) = <<>> THEN "loop" ELSE "prepare"
            /\ UNCHANGED dieAt
    /\ UNCHANGED <<tests, si, numExec, file, conn, nconn, db, stmts, rnd,
                   fn, caller, timing, pre, history>>

\* sqlite3_exec "BEGIN TRANSACTION;" returns an error, die_db_error.
BeginFail ==
    /\ pc = "begin"
    /\ Logged("begin failed")
    /\ Die("sqlite3_exec BEGIN")
    /\ UNCHANGED <<tests, si, numExec, file, conn, nconn, db, inTxn, stmts,
                   cur, rnd, i, fn, caller, timing, pre, history>>

\* sqlite3_prepare_v3 of the strategy's next statement returns SQLITE_OK.
Prepare ==
    /\ pc = "prepare"
    /\ LET todo == SelectSeq(Prepared(fn), LAMBDA h : h \notin stmts)
       IN  /\ stmts' = stmts \cup {Head(todo)}
           /\ Logged("prepare " \o Head(todo))
           /\ pc' = IF Len(todo) = 1
                    THEN (IF fn \in UpdateFns THEN "select" ELSE "loop")
                    ELSE "prepare"
    /\ UNCHANGED <<tests, si, numExec, file, conn, nconn, db, inTxn, cur,
                   rnd, i, fn, caller, timing, pre, history, dieAt>>

\* sqlite3_prepare_v3 returns an error, die_db_error.
PrepareFail ==
    /\ pc = "prepare"
    /\ Logged("prepare failed")
    /\ Die("sqlite3_prepare_v3")
    /\ UNCHANGED <<tests, si, numExec, file, conn, nconn, db, inTxn, stmts,
                   cur, rnd, i, fn, caller, timing, pre, history>>

\* One pass of an insert loop: four rand_double() draws, the key, and the
\* INSERT by sqlite3_exec or bind/sqlite3_step/clear/reset.  The INSERT
\* fails on a key the table holds (PRIMARY KEY); outside a transaction it
\* commits at once.
InsertRow ==
    /\ pc = "loop"
    /\ LoopCond(i)
    /\ rnd' = RandAt(rnd, 4)
    /\ Logged("insert")
    /\ LET row == NewRow(fn, i, rnd)
       IN  IF HasKey(db.rows, row.key)
           THEN /\ Die("INSERT constraint")
                /\ UNCHANGED <<db, file, i>>
           ELSE /\ db' = [db EXCEPT !.rows = Append(@, row)]
                /\ file' = IF inTxn THEN file ELSE db'
                /\ i' = i + 1
                /\ UNCHANGED <<pc, dieAt>>
    /\ UNCHANGED <<tests, si, numExec, conn, nconn, inTxn, stmts, cur, fn,
                   caller, timing, pre, history>>

\* The INSERT returns an error for another reason, die_db_error.
InsertRowFail ==
    /\ pc = "loop"
    /\ LoopCond(i)
    /\ rnd' = RandAt(rnd, 4)
    /\ Logged("insert failed")
    /\ Die("INSERT")
    /\ UNCHANGED <<tests, si, numExec, file, conn, nconn, db, inTxn, stmts,
                   cur, i, fn, caller, timing, pre, history>>

\* The insert loop's condition is false.
InsertLoopExit ==
    /\ pc = "loop"
    /\ ~LoopCond(i)
    /\ pc' = AfterLoop(fn)
    /\ UNCHANGED <<tests, si, numExec, file, conn, nconn, db, inTxn, stmts,
                   cur, rnd, i, fn, caller, timing, log, pre, history, dieAt>>

\* One pass of an update loop: sqlite3_step(sel_stmt) returns SQLITE_ROW,
\* the row is read and incremented, bound to up_stmt, and
\* sqlite3_step(up_stmt) returns SQLITE_DONE.
UpdateRow ==
    /\ pc = "select"
    /\ Ahead(fn, db.rows, cur) # {}
    /\ LET r == NextRowid(fn, db.rows, cur)
       IN  /\ cur' = r
           /\ db' = [db EXCEPT !.rows =
                        UpdateRows(fn, @, r, Incremented(db.rows[r]))]
    /\ file' = IF inTxn THEN file ELSE db'
    /\ log' = log \o <<"select", "update">>
    /\ UNCHANGED <<pc, tests, si, numExec, conn, nconn, inTxn, stmts, rnd,
                   i, fn, caller, timing, pre, history, dieAt>>

\* sqlite3_step(sel_stmt) returns SQLITE_ROW and sqlite3_step(up_stmt)
\* returns an error, die_db_error.
UpdateRowFail ==
    /\ pc = "select"
    /\ Ahead(fn, db.rows, cur) # {}
    /\ cur' = NextRowid(fn, db.rows, cur)
    /\ log' = log \o <<"select", "update failed">>
    /\ Die("UPDATE")
    /\ UNCHANGED <<tests, si, numExec, file, conn, nconn, db, inTxn, stmts,
                   rnd, i, fn, caller, timing, pre, history>>

\* sqlite3_step(sel_stmt) returns SQLITE_DONE: the while loop ends.
SelectDone ==
    /\ pc = "select"
    /\ Ahead(fn, db.rows, cur) = {}
    /\ Logged("select done")
    /\ pc' = "commit"
    /\ UNCHANGED <<tests, si, numExec, file, conn, nconn, db, inTxn, stmts,
                   cur, rnd, i, fn, caller, timing, pre, history, dieAt>>

\* sqlite3_step(sel_stmt) returns an error: the while loop's condition
\* (rc == SQLITE_ROW) is false and rc is not looked at again.  SQLite
\* keeps the transaction or, for some errors, rolls it back.
SelectError ==
    /\ pc = "select"
    /\ Logged("select failed")
    /\ \E rollback \in BOOLEAN :
          /\ inTxn' = (inTxn /\ ~rollback)
          /\ db' = IF inTxn /\ rollback THEN file ELSE db
    /\ pc' = "commit"
    /\ UNCHANGED <<tests, si, numExec, file, conn, nconn, stmts, cur, rnd,
                   i, fn, caller, timing, pre, history, dieAt>>

\* sqlite3_exec "COMMIT TRANSACTION;" returns SQLITE_OK, or an error when
\* no transaction is open.
Commit ==
    /\ pc = "commit"
    /\ Logged("commit")
    /\ IF inTxn
       THEN /\ file' = db
            /\ inTxn' = FALSE
            /\ pc' = IF Prepared(fn) = <<>> THEN Return ELSE "finalize"
            /\ UNCHANGED dieAt
       ELSE /\ Die("sqlite3_exec COMMIT without transaction")
            /\ UNCHANGED <<file, inTxn>>
    /\ UNCHANGED <<tests, si, numExec, conn, nconn, db, stmts, cur, rnd, i,
                   fn, caller, timing, pre, history>>

\* sqlite3_exec "COMMIT TRANSACTION;" returns an error, die_db_error.
CommitFail ==
    /\ pc = "commit"
    /\ Logged("commit failed")
    /\ Die("sqlite3_exec COMMIT")
    /\ UNCHANGED <<tests, si, numExec, file, conn, nconn, db, inTxn, stmts,
                   cur, rnd, i, fn, caller, timing, pre, history>>

\* sqlite3_finalize of each statement of the strategy; the strategy returns.
Finalize ==
    /\ pc = "finalize"
    /\ stmts' = stmts \ Range(Finalized(fn))
    /\ log' = log \o [k \in 1..Len(Finalized(fn)) |->
                         "finalize " \o Finalized(fn)[k]]
    /\ pc' = Return
    /\ UNCHANGED <<tests, si, numExec, file, conn, nconn, db, inTxn, cur,
                   rnd, i, fn, caller, timing, pre, history, dieAt>>

Next ==
    \/ MainCall
    \/ MainExit
    \/ OpenDatabase
    \/ OpenDatabaseFail
    \/ SetupTest
    \/ SetupTestFail
    \/ StartTimer
    \/ CallFun
    \/ StopTimer
    \/ CloseDatabase
    \/ Report
    \/ Begin
    \/ BeginFail
    \/ Prepare
    \/ PrepareFail
    \/ InsertRow
    \/ InsertRowFail
    \/ InsertLoopExit
    \/ UpdateRow
    \/ UpdateRowFail
    \/ SelectDone
    \/ SelectError
    \/ Commit
    \/ CommitFail
    \/ Finalize

Spec == Init /\ [][Next]_vars

----------------------------------------------------------------------------
(* Properties *)

Count(seq, e) == Cardinality({k \in 1..Len(seq) : seq[k] = e})

IsPrefix(a, b) == Len(a) <= Len(b) /\ \A k \in 1..Len(a) : a[k] = b[k]

Nums == {"num1", "num2", "num3", "num4"}

\* The scenario the log is of: the one main is at, or the one it just ran.
LogScenario ==
    LET k == IF pc \in {"main", "done"} THEN si - 1 ELSE si
    IN  IF k \in 1..Len(tests) THEN tests[k] ELSE [fun |-> "", setup |-> ""]

\* An update strategy called by time_test_execution has returned.
UpdateReturned == pc = "stop" /\ fn \in UpdateFns

\* An insert strategy has returned, to time_test_execution or to
\* setup_update_test.
InsertReturned ==
    \/ pc = "stop" /\ fn \in InsertFns
    \/ pc = "start" /\ caller = "setup"

\* A call that reported a status other than its success status.
Failed(e) ==
    e \in {"begin failed", "prepare failed", "insert failed",
           "update failed", "select failed", "commit failed"}

\* C1: when update_rows_pk or update_rows_rowid has returned, the committed
\* table has the rows it had when the timer started, same keys in the same
\* rowids, and each of num1..num4 is its earlier value plus 1.0.
C1_UpdateAddsOneToEveryRow ==
    UpdateReturned =>
        /\ Len(file.rows) = Len(pre)
        /\ \A k \in 1..Len(pre) :
              /\ file.rows[k].key = pre[k].key
              /\ \A c \in Nums : file.rows[k][c] = pre[k][c] + Unit

\* C2: when an insert strategy has returned, the committed table holds
\* exactly NUM_EXECUTIONS rows, the row of index i under the key made for i.
C2_InsertCommitsAllRows ==
    InsertReturned =>
        /\ file.hasTable
        /\ Len(file.rows) = numExec
        /\ \A k \in 1..numExec : file.rows[k].key = MakeKey(fn, k - 1)

C2_Witness ==
    /\ pc = "stop"
    /\ fn = "insert_rows_xact"
    /\ numExec >= 2
    /\ Len(file.rows) = numExec

\* C3: once a call of the scenario has reported a failure, no COMMIT is
\* executed after it and the strategy does not return to the runner.
C3_FailureIsFatalBeforeCommit ==
    \A k \in 1..Len(log) :
        Failed(log[k]) =>
            /\ \A j \in (k + 1)..Len(log) : log[j] # "commit"
            /\ pc \notin {"stop", "close", "report", "main", "done"}

\* C4: two update scenarios that completed on identical fixtures committed
\* identical tables.
C4_UpdateStrategiesAgree ==
    \A a, b \in 1..Len(history) :
        history[a].fixture = history[b].fixture
            => history[a].final = history[b].final

C5_Steps == <<"open", "setup", "start", "fun", "stop", "close", "report">>

C6_StatementsFinalized ==
    /\ Cardinality(stmts) <= 2
    /\ pc = "close" =>
          /\ stmts = {}
          /\ \A h \in {"stmt", "sel_stmt", "up_stmt"} :
                Count(log, "finalize " \o h) = Count(log, "prepare " \o h)
    /\ dieAt # "sqlite3_close"

C6_Witness ==
    /\ pc = "close"
    /\ fn = "update_rows_pk"
    /\ numExec >= 1
    /\ Count(log, "finalize stmt") = 1
    /\ Count(log, "finalize sel_stmt") = 1
    /\ Count(log, "finalize up_stmt") = 1

\* C7: when the timer has just started, the table is empty in an insert
\* scenario and holds exactly NUM_EXECUTIONS rows, keys K-0 .. K-(N-1), all
\* committed, in an update scenario, whatever ran before.
C7_FreshTableAtTimerStart ==
    (pc = "fun" /\ timing) =>
        /\ db.hasTable
        /\ file = db
        /\ pre = db.rows
        /\ IF tests[si].fun \in UpdateFns
           THEN /\ Len(db.rows) = numExec
                /\ \A k \in 1..numExec :
                      db.rows[k].key = MakeKey("insert_rows_xact_prepared", k - 1)
           ELSE db.rows = <<>>

C7_Witness ==
    /\ pc = "fun"
    /\ timing
    /\ si = Len(tests)
    /\ numExec >= 2
    /\ Len(db.rows) = numExec

\* C8: when sqlite3_open has reported a failure, the process is on the
\* fatal path, open is the only call of the scenario, and the database has
\* no table and no row.
C8_OpenFailureIsFatal ==
    conn = "failed" =>
        /\ pc = "dead"
        /\ dieAt = "sqlite3_open"
        /\ log = <<"open">>
        /\ file = EmptyDb

C8_Witness ==
    /\ conn = "failed"
    /\ si = 3
    /\ numExec >= 1

\* The number a sequence of digit codes denotes.
RECURSIVE C9_Value(_)
C9_Value(digits) ==
    IF digits = <<>> THEN 0
    ELSE 10 * C9_Value(SubSeq(digits, 1, Len(digits) - 1))
         + (digits[Len(digits)] - 48)

\* C9: the key of the row inserted for index i is the scenario's prefix
\* followed by digits without a leading zero whose decimal value is i; the
\* keys of the table are pairwise distinct and no INSERT fails on the
\* PRIMARY KEY constraint.
C9_KeysDistinct ==
    LET prefix == IF LogScenario.fun = "insert_rows" THEN <<>> ELSE <<75, 45>>
        n == Len(prefix)
    IN  /\ \A k \in 1..Len(db.rows) :
              LET key == db.rows[k].key
                  digits == SubSeq(key, n + 1, Len(key))
              IN  /\ SubSeq(key, 1, n) = prefix
                  /\ digits # <<>>
                  /\ \A d \in 1..Len(digits) : digits[d] \in 48..57
                  /\ Len(digits) > 1 => digits[1] # 48
                  /\ C9_Value(digits) = k - 1
        /\ \A a, b \in 1..Len(db.rows) :
              a # b => db.rows[a].key # db.rows[b].key
        /\ dieAt # "INSERT constraint"

C9_Witness ==
    /\ Len(db.rows) >= 11
    /\ fn = "insert_rows"
    /\ pc = "stop"

\* The calls of the scenario from the k-th on keep BEGIN and COMMIT
\* alternating from depth d (transactions open before the k-th call), with
\* every INSERT and UPDATE of a transactional strategy at depth 1.
RECURSIVE C10_Scan(_, _)
C10_Scan(k, d) ==
    IF k > Len(log) THEN TRUE
    ELSE LET e == IF log[k] = "begin" THEN d + 1
                  ELSE IF log[k] = "commit" THEN d - 1
                  ELSE d
         IN  /\ e \in {0, 1}
             /\ (log[k] \in {"insert", "update"}
                   /\ LogScenario.fun # "insert_rows") => e = 1
             /\ C10_Scan(k + 1, e)

\* C10: the BEGINs and COMMITs of a scenario alternate, starting with
\* BEGIN, and no BEGIN is refused for an open transaction; every INSERT
\* and UPDATE of a transactional strategy is issued inside a transaction;
\* when close_database is called no transaction is open and the scenario
\* issued one BEGIN and one COMMIT per transactional strategy it ran.
C10_TransactionsPaired ==
    LET scen == LogScenario
        ran == (IF scen.fun \in XactFns THEN 1 ELSE 0)
               + (IF scen.setup = "setup_update_test" THEN 1 ELSE 0)
    IN  /\ C10_Scan(1, 0)
        /\ dieAt # "sqlite3_exec BEGIN in transaction"
        /\ pc = "close" =>
              /\ ~inTxn
              /\ Count(log, "begin") = ran
              /\ Count(log, "commit") = ran

C10_Witness ==
    /\ pc = "close"
    /\ fn = "update_rows_rowid"
    /\ numExec >= 1
    /\ Count(log, "begin") = 2
    /\ Count(log, "update") = numExec

====
